---- MODULE Spec2Model ----
(***************************************************************************)
(* Model of the NAE agent LLDP_Webhook_Simple (LLDP_Webhook_NAE.py).       *)
(*                                                                         *)
(* The agent is a set of callbacks run by the host: on_agent_start,        *)
(* on_agent_re_enable and the rule action handle_interface_up.  Each       *)
(* callback is one action.  The host helpers it calls (parameter store,    *)
(* get_rest_request_json, time.sleep, post_rest_request) are inputs of the *)
(* action: every outcome they can have, an exception included, is drawn    *)
(* with \E.  The calls a callback makes are recorded, in order, in calls.  *)
(*                                                                         *)
(* Text that the code splits, parses or formats (the interfaces parameter, *)
(* port names, event labels) is a sequence of one-character strings.       *)
(***************************************************************************)
EXTENDS Integers, Sequences, FiniteSets, TLC

VARIABLES params, hostname, monitor_all_interfaces, has_ports_list, ports_list,
          lldp_db, calls, last, prior_fault

\* params                  the agent's parameters, as the host's store holds them
\* hostname                self.hostname, NoAttr before it is first assigned
\* monitor_all_interfaces  self.monitor_all_interfaces: NoAttr, "true" or "false"
\* has_ports_list          self.ports_list has been assigned
\* ports_list              self.ports_list, a set of port names
\* lldp_db                 the LLDP neighbors the switch holds for a port: the
\*                         items of the JSON object the REST resource returns
\* calls                   the host calls of the callback that ran last
\* last                    which callback ran last and what it ended with
\* prior_fault             a call of an earlier callback invocation raised
vars == <<params, hostname, monitor_all_interfaces, has_ports_list, ports_list,
          lldp_db, calls, last, prior_fault>>

\* ------------------------------------------------------------------ bounds
\* Most comma-separated tokens in the interfaces parameter.
MaxTokens == 2
\* Largest port number written in a generated token.
MaxPort == 3
\* Most entries in an LLDP-neighbors response.
MaxNeighbors == 2

\* ------------------------------------------------------- program constants
MinWait == 5
MaxWait == 60
DefaultWait == 15

DEFAULT_WEBHOOK_URL == "https://webhook.site/your-webhook-id"
VALID_WEBHOOK_URL == "https://hooks.example/lldp"

\* Marks an attribute that the object does not have (hasattr is False).
NoAttr == "<no attribute>"

\* ------------------------------------------------------------------- text
Digits == {"0", "1", "2", "3", "4", "5", "6", "7", "8", "9"}

DigitVal(c) ==
  CASE c = "0" -> 0 [] c = "1" -> 1 [] c = "2" -> 2 [] c = "3" -> 3
    [] c = "4" -> 4 [] c = "5" -> 5 [] c = "6" -> 6 [] c = "7" -> 7
    [] c = "8" -> 8 [] c = "9" -> 9

DigitChar(d) ==
  CASE d = 0 -> "0" [] d = 1 -> "1" [] d = 2 -> "2" [] d = 3 -> "3"
    [] d = 4 -> "4" [] d = 5 -> "5" [] d = 6 -> "6" [] d = 7 -> "7"
    [] d = 8 -> "8" [] d = 9 -> "9"

\* c in s
Contains(s, c) == \E i \in 1..Len(s) : s[i] = c

\* s.isdigit(): non-empty and every character a digit
isdigit(s) == Len(s) > 0 /\ \A i \in 1..Len(s) : s[i] \in Digits

RECURSIVE DigitsVal(_)
DigitsVal(s) ==
  IF Len(s) = 0 THEN 0
  ELSE 10 * DigitsVal(SubSeq(s, 1, Len(s) - 1)) + DigitVal(s[Len(s)])

\* int(s) succeeds on an optionally signed digit string (within this alphabet)
int_ok(s) ==
  \/ isdigit(s)
  \/ Len(s) > 1 /\ s[1] \in {"-", "+"} /\ isdigit(Tail(s))

int(s) ==
  IF isdigit(s) THEN DigitsVal(s)
  ELSE IF s[1] = "-" THEN 0 - DigitsVal(Tail(s))
  ELSE DigitsVal(Tail(s))

RECURSIVE NatStr(_)
NatStr(n) ==
  IF n < 10 THEN <<DigitChar(n)>>
  ELSE Append(NatStr(n \div 10), DigitChar(n % 10))

\* str(i) / f"{i}" of an integer
str(n) == IF n < 0 THEN <<"-">> \o NatStr(0 - n) ELSE NatStr(n)

RECURSIVE SplitFrom(_, _, _, _, _)
SplitFrom(s, c, i, cur, acc) ==
  IF i > Len(s) THEN Append(acc, cur)
  ELSE IF s[i] = c THEN SplitFrom(s, c, i + 1, <<>>, Append(acc, cur))
  ELSE SplitFrom(s, c, i + 1, Append(cur, s[i]), acc)

\* s.split(c): one more piece than there are separators, "" gives [""]
split(s, c) == SplitFrom(s, c, 1, <<>>, <<>>)

RECURSIVE join(_, _)
\* c.join(parts)
join(parts, c) ==
  IF Len(parts) = 0 THEN <<>>
  ELSE IF Len(parts) = 1 THEN parts[1]
  ELSE parts[1] \o <<c>> \o join(Tail(parts), c)

RECURSIVE replace(_, _, _)
\* s.replace(c, t) for a one-character c
replace(s, c, t) ==
  IF Len(s) = 0 THEN <<>>
  ELSE (IF s[1] = c THEN t ELSE <<s[1]>>) \o replace(Tail(s), c, t)

SeqToSet(s) == {s[i] : i \in 1..Len(s)}

\* the literal "all"
ALL == <<"a", "l", "l">>

\* --------------------------------------------------- create_interfaces_list
\* What the body of the try block does for one port containing "-": the
\* ports it adds, and whether it raised (int() of a non-number).
\* Faulty variant: the last port of the range is left out.
expand_range_short(port) ==
  LET tmp_list == split(port, "-") IN
  IF Len(tmp_list) = 2 /\ Contains(tmp_list[1], "/")
  THEN LET base_parts == split(tmp_list[1], "/") IN
       IF isdigit(tmp_list[2])
       THEN IF int_ok(base_parts[Len(base_parts)])
            THEN LET start_num == int(base_parts[Len(base_parts)])
                     end_num == int(tmp_list[2])
                     prefix == join(SubSeq(base_parts, 1, Len(base_parts) - 1), "/") \o <<"/">>
                 IN [add |-> {prefix \o str(i) : i \in start_num..(end_num - 1)}, exc |-> FALSE]
            ELSE [add |-> {}, exc |-> TRUE]
       ELSE [add |-> {}, exc |-> FALSE]
  ELSE [add |-> {}, exc |-> FALSE]

expand_range(port) ==
  LET tmp_list == split(port, "-") IN
  IF Len(tmp_list) = 2 /\ Contains(tmp_list[1], "/")
  THEN LET base_parts == split(tmp_list[1], "/") IN
       IF isdigit(tmp_list[2])
       THEN IF int_ok(base_parts[Len(base_parts)])
            THEN LET start_num == int(base_parts[Len(base_parts)])
                     end_num == int(tmp_list[2])
                     prefix == join(SubSeq(base_parts, 1, Len(base_parts) - 1), "/") \o <<"/">>
                 IN [add |-> {prefix \o str(i) : i \in start_num..end_num}, exc |-> FALSE]
            ELSE [add |-> {}, exc |-> TRUE]
       ELSE [add |-> {}, exc |-> FALSE]
  ELSE [add |-> {}, exc |-> FALSE]

\* The ports_list that create_interfaces_list leaves, and the number of
\* "Error parsing port range" lines it logs.
create_interfaces_list(interfaces) ==
  LET initial == SeqToSet(split(interfaces, ","))
      ports_to_remove == {port \in initial : Contains(port, "-")}
      ports_to_add == UNION {expand_range(port).add : port \in ports_to_remove}
      errors == Cardinality({port \in ports_to_remove : expand_range(port).exc})
  IN [ports_list |-> (initial \ ports_to_remove) \cup ports_to_add,
      errors |-> errors]

\* ------------------------------------------------------------ host calls
\* One entry of calls: a host helper the callback called and how it ended,
\* a piece of event data it read, or a line it logged.
\*   op "param"  name = parameter           res "ok" | "raise"
\*   op "event"  name = "labels" | "split"  res "ok" | "raise"
\*   op "attr"   name = attribute read      res "raise" (AttributeError)
\*   op "get"    name = "system" | "lldp", port = quoted port name,
\*                                           res "raise" | "empty" | "data"
\*   op "sleep"  n = seconds                res "ok" | "raise"
\*   op "post"   payload, n = status code   res "raise" | "none" | "status"
\*   op "error"  logger.error, name = which
\*   op "sent"   the success line after a 2xx answer
NoPayload == [event_type |-> "none"]

Call(op, name, res) ==
  [op |-> op, name |-> name, port |-> <<>>, n |-> 0, res |-> res, payload |-> NoPayload]

LogError(name) == Call("error", name, "ok")

\* datetime.datetime.now().isoformat(): the clock is outside the model
get_current_time == "now"

\* dict.get(k, default)
get(d, k, default) == IF k \in DOMAIN d THEN d[k] ELSE default

\* --------------------------------------------------------------- send_webhook
\* The webhook_url parameter as the code reads it: str(params.get(.., ''))
webhook_url_of(p) == IF p.webhook_url = NoAttr THEN "" ELSE p.webhook_url

invalid_url(webhook_url) == webhook_url = "" \/ webhook_url = DEFAULT_WEBHOOK_URL

\* Faulty variant: remote_device never falls back to mgmt_ip_list.
neighbor_data_no_fallback(neighbor_info) ==
  [remote_device |-> get(neighbor_info, "chassis_name", ""),
   remote_port |-> get(neighbor_info, "port_description", ""),
   chassis_id |-> get(neighbor_info, "chassis_id", ""),
   capabilities |-> get(neighbor_info, "capabilities", ""),
   mgmt_ip |-> get(neighbor_info, "mgmt_ip_list", "")]

\* The entry built from one neighbor_info dict.
neighbor_data(neighbor_info) ==
  LET chassis_name == get(neighbor_info, "chassis_name", "")
      remote_device == IF chassis_name = "" /\ "mgmt_ip_list" \in DOMAIN neighbor_info
                       THEN get(neighbor_info, "mgmt_ip_list", "")
                       ELSE chassis_name
  IN [remote_device |-> remote_device,
      remote_port |-> get(neighbor_info, "port_description", ""),
      chassis_id |-> get(neighbor_info, "chassis_id", ""),
      capabilities |-> get(neighbor_info, "capabilities", ""),
      mgmt_ip |-> get(neighbor_info, "mgmt_ip_list", "")]

\* isinstance(neighbor, dict) and 'neighbor_info' in neighbor
has_neighbor_info(neighbor) == neighbor.is_dict /\ "neighbor_info" \in DOMAIN neighbor.value

RECURSIVE lldp_neighbors(_)
\* The loop over lldp_data.items(): lldp_data is the sequence of the
\* response's items in iteration order.
lldp_neighbors(lldp_data) ==
  IF Len(lldp_data) = 0 THEN <<>>
  ELSE LET neighbor == Head(lldp_data) IN
       (IF has_neighbor_info(neighbor)
        THEN <<neighbor_data(neighbor.value["neighbor_info"])>>
        ELSE <<>>) \o lldp_neighbors(Tail(lldp_data))

\* 2xx check on getattr(response, 'status_code', None)
status_ok(response) ==
  response.kind = "status" /\ response.code # 0 /\ response.code >= 200 /\ response.code < 300

\* Faulty variant: a POST that was not answered with 2xx is sent once more.
post_retry(payload, response) ==
  LET post == [Call("post", payload.event_type, response.kind) EXCEPT
                 !.n = response.code, !.payload = payload] IN
  IF response.kind = "raise" THEN <<post, LogError("post raised")>>
  ELSE IF status_ok(response) THEN <<post, Call("sent", payload.event_type, "ok")>>
  ELSE <<post, LogError("post failed"), post, LogError("post failed")>>

\* post_rest_request and the check of its answer (also the except clause that
\* catches its exception)
post(payload, response) ==
  LET post == [Call("post", payload.event_type, response.kind) EXCEPT
                 !.n = response.code, !.payload = payload] IN
  IF response.kind = "raise" THEN <<post, LogError("post raised")>>
  ELSE IF status_ok(response) THEN <<post, Call("sent", payload.event_type, "ok")>>
  ELSE <<post, LogError("post failed")>>

\* send_webhook never raises: its whole body is inside try/except.
\* self.hostname is set by the caller before the call, and again here.
send_webhook(self, p, port, lldp_data, env) ==
  IF env.url = "raise"
  THEN [self |-> self,
        calls |-> <<Call("param", "webhook_url", "raise"), LogError("send_webhook")>>]
  ELSE IF invalid_url(webhook_url_of(p))
  THEN [self |-> self,
        calls |-> <<Call("param", "webhook_url", "ok"), LogError("invalid url")>>]
  ELSE LET self1 == IF self.hostname = NoAttr
                    THEN [self EXCEPT !.hostname = "Unknown"] ELSE self
           payload == [event_type |-> "interface_up",
                       switch_hostname |-> self1.hostname,
                       interface |-> port,
                       timestamp |-> get_current_time,
                       lldp_neighbors |-> lldp_neighbors(lldp_data)]
       IN [self |-> self1,
           calls |-> <<Call("param", "webhook_url", "ok")>> \o post(payload, env.post)]

\* send_test_webhook never raises either.
send_test_webhook(self, p, env) ==
  LET self1 == IF self.hostname = NoAttr
               THEN [self EXCEPT !.hostname = "Unknown"] ELSE self IN
  IF env.url = "raise"
  THEN [self |-> self1,
        calls |-> <<Call("param", "webhook_url", "raise"), LogError("send_test_webhook")>>]
  ELSE IF invalid_url(webhook_url_of(p))
  THEN [self |-> self1,
        calls |-> <<Call("param", "webhook_url", "ok"), LogError("invalid url")>>]
  ELSE LET payload == [event_type |-> "test",
                       switch_hostname |-> self1.hostname,
                       message |-> "This is a test webhook from LLDP_Webhook agent",
                       timestamp |-> get_current_time]
       IN [self |-> self1,
           calls |-> <<Call("param", "webhook_url", "ok")>> \o post(payload, env.post)]

\* ------------------------------------------------------------ get_lldp_info
\* "/" becomes "%2F" in the URL
port_name_of(port) == replace(port, "/", <<"%", "2", "F">>)

GetLldp(port, res) == [Call("get", "lldp", res) EXCEPT !.port = port_name_of(port)]

\* Faulty variant: without the try/except, an exception of the GET leaves
\* the function.
get_lldp_info_reraise(port, db, env) ==
  IF env.get1 = "raise"
  THEN [data |-> <<>>, calls |-> <<GetLldp(port, "raise")>>, exc |-> TRUE]
  ELSE IF env.get1 = "data" /\ Len(db) > 0
  THEN IF env.get2 = "raise"
       THEN [data |-> <<>>, exc |-> TRUE,
             calls |-> <<GetLldp(port, "data"), GetLldp(port, "raise")>>]
       ELSE IF env.get2 = "data"
       THEN [data |-> db, exc |-> FALSE,
             calls |-> <<GetLldp(port, "data"), GetLldp(port, "data")>>]
       ELSE [data |-> <<>>, exc |-> FALSE,
             calls |-> <<GetLldp(port, "data"), GetLldp(port, "empty")>>]
  ELSE [data |-> <<>>, calls |-> <<GetLldp(port, "empty")>>, exc |-> FALSE]

\* db is what the switch holds for the port; a GET answers with it ("data"),
\* with an empty object ("empty") or raises.  The first answer is only
\* tested for emptiness; a non-empty one is fetched again and the second
\* answer is returned as it is.  exc: an exception leaves the function.
get_lldp_info(port, db, env) ==
  IF env.get1 = "raise"
  THEN [data |-> <<>>, exc |-> FALSE,
        calls |-> <<GetLldp(port, "raise"), LogError("get_lldp_info")>>]
  ELSE IF env.get1 = "data" /\ Len(db) > 0
  THEN IF env.get2 = "raise"
       THEN [data |-> <<>>, exc |-> FALSE,
             calls |-> <<GetLldp(port, "data"), GetLldp(port, "raise"),
                         LogError("get_lldp_info")>>]
       ELSE IF env.get2 = "data"
       THEN [data |-> db, exc |-> FALSE,
             calls |-> <<GetLldp(port, "data"), GetLldp(port, "data")>>]
       ELSE [data |-> <<>>, exc |-> FALSE,
             calls |-> <<GetLldp(port, "data"), GetLldp(port, "empty")>>]
  ELSE [data |-> <<>>, calls |-> <<GetLldp(port, "empty")>>, exc |-> FALSE]

\* ------------------------------------------------------------- init_global
\* sys: what GET .../system gives: "raise", "empty" (falsy), "nohost"
\* (no 'hostname' key) or "host".
get_switch_hostname(self, sys) ==
  IF sys = "raise"
  THEN [self |-> [self EXCEPT !.hostname = "Unknown"],
        calls |-> <<Call("get", "system", "raise"), LogError("get_switch_hostname")>>]
  ELSE IF sys = "host"
  THEN [self |-> [self EXCEPT !.hostname = "sw1"],
        calls |-> <<Call("get", "system", "data")>>]
  ELSE [self |-> [self EXCEPT !.hostname = "Unknown"],
        calls |-> <<Call("get", "system", IF sys = "empty" THEN "empty" ELSE "data")>>]

\* init_global has no try of its own: exc tells the caller it raised.
\* params['interfaces'] is read once here and once more in
\* create_interfaces_list; either read can raise.
init_global(self, p, env) ==
  IF env.if1 = "raise"
  THEN [self |-> self, calls |-> <<Call("param", "interfaces", "raise")>>, exc |-> TRUE]
  ELSE IF p.interfaces = ALL
  THEN LET self1 == [self EXCEPT !.monitor_all_interfaces = "true",
                                 !.has_ports_list = TRUE, !.ports_list = {}]
           h == get_switch_hostname(self1, env.sys)
       IN [self |-> h.self, exc |-> FALSE,
           calls |-> <<Call("param", "interfaces", "ok")>> \o h.calls]
  ELSE LET self1 == [self EXCEPT !.monitor_all_interfaces = "false"] IN
       IF env.if2 = "raise"
       THEN [self |-> self1, exc |-> TRUE,
             calls |-> <<Call("param", "interfaces", "ok"),
                         Call("param", "interfaces", "raise")>>]
       ELSE LET c == create_interfaces_list(p.interfaces)
                self2 == [self1 EXCEPT !.has_ports_list = TRUE, !.ports_list = c.ports_list]
                h == get_switch_hostname(self2, env.sys)
            IN [self |-> h.self, exc |-> FALSE,
                calls |-> <<Call("param", "interfaces", "ok"),
                            Call("param", "interfaces", "ok")>>
                          \o [i \in 1..c.errors |-> LogError("port range")]
                          \o h.calls]

\* ---------------------------------------------- on_agent_start / re_enable
on_agent_start(self, p, env) ==
  LET self0 == [self EXCEPT !.hostname = "Unknown"]
      g == init_global(self0, p, env)
  IN IF g.exc
     THEN [self |-> g.self, calls |-> Append(g.calls, LogError("on_agent_start")),
           exc |-> FALSE]
     ELSE IF env.url1 = "raise"
     THEN [self |-> g.self, exc |-> FALSE,
           calls |-> g.calls \o <<Call("param", "webhook_url", "raise"),
                                  LogError("on_agent_start")>>]
     ELSE LET t == send_test_webhook(g.self, p, env) IN
          [self |-> t.self, exc |-> FALSE,
           calls |-> g.calls \o <<Call("param", "webhook_url", "ok")>> \o t.calls]

on_agent_re_enable(self, p, env) ==
  LET self0 == [self EXCEPT !.hostname = "Unknown"]
      g == init_global(self0, p, env)
  IN IF g.exc
     THEN [self |-> g.self, calls |-> Append(g.calls, LogError("on_agent_re_enable")),
           exc |-> FALSE]
     ELSE LET t == send_test_webhook(g.self, p, env) IN
          [self |-> t.self, exc |-> FALSE, calls |-> g.calls \o t.calls]

\* ------------------------------------------------------ handle_interface_up
\* The monitored-interface check: "accept", "ignore" (the early return) or
\* "raise" (ports_list was never assigned).
\* Faulty variant: the monitored list is not consulted.
monitored_check_all(self, interface_id) == "accept"

monitored_check(self, interface_id) ==
  IF self.monitor_all_interfaces # NoAttr
  THEN IF self.monitor_all_interfaces = "false"
       THEN IF ~self.has_ports_list THEN "raise"
            ELSE IF interface_id \notin self.ports_list THEN "ignore"
            ELSE "accept"
       ELSE "accept"
  ELSE "accept"

\* Faulty variant: no upper limit.
lldp_wait_time_no_max(p, lookup) ==
  IF lookup = "raise" THEN DefaultWait
  ELSE LET w == p.lldp_wait_time
           ok == w.kind \in {"int", "missing"} \/ (w.kind = "str" /\ int_ok(w.s))
           v == IF w.kind = "missing" THEN DefaultWait
                ELSE IF w.kind = "int" THEN w.v ELSE int(w.s)
       IN IF ~ok THEN DefaultWait
          ELSE IF v < MinWait THEN MinWait
          ELSE v

\* The seconds to sleep.  lookup: params.get(...) returned ("ok") or raised.
\* The parameter is an int, text (int() parses it or raises), None, or missing.
lldp_wait_time(p, lookup) ==
  IF lookup = "raise" THEN DefaultWait
  ELSE LET w == p.lldp_wait_time
           ok == w.kind \in {"int", "missing"} \/ (w.kind = "str" /\ int_ok(w.s))
           v == IF w.kind = "missing" THEN DefaultWait
                ELSE IF w.kind = "int" THEN w.v ELSE int(w.s)
       IN IF ~ok THEN DefaultWait
          ELSE IF v < MinWait THEN MinWait
          ELSE IF v > MaxWait THEN MaxWait
          ELSE v

Sleep(n, res) == [Call("sleep", "time", res) EXCEPT !.n = n]

Result(self, c, exc) ==
  [self |-> self, calls |-> c, exc |-> exc, interface_id |-> <<>>,
   accepted |-> FALSE, got_lldp |-> FALSE, lldp_data |-> <<>>]

\* Faulty variant: the neighbors are fetched before the sleep.
wait_and_notify_get_first(self, p, interface_id, db, env, wait) ==
  LET g == get_lldp_info(interface_id, db, env) IN
  IF g.exc
  THEN [Result(self, g.calls, TRUE) EXCEPT !.interface_id = interface_id, !.accepted = TRUE]
  ELSE IF env.sleep = "raise"
  THEN [Result(self, g.calls \o <<Sleep(wait, "raise")>>, TRUE) EXCEPT
          !.interface_id = interface_id, !.accepted = TRUE]
  ELSE LET w == send_webhook(self, p, interface_id, g.data, env) IN
       [self |-> w.self, exc |-> FALSE,
        calls |-> g.calls \o <<Sleep(wait, "ok")>> \o w.calls,
        interface_id |-> interface_id, accepted |-> TRUE,
        got_lldp |-> TRUE, lldp_data |-> g.data]

\* From the sleep to the end of the try block.
wait_and_notify(self, p, interface_id, db, env, wait) ==
  IF env.sleep = "raise"
  THEN [Result(self, <<Sleep(wait, "raise")>>, TRUE) EXCEPT
          !.interface_id = interface_id, !.accepted = TRUE]
  ELSE LET g == get_lldp_info(interface_id, db, env) IN
       IF g.exc
       THEN [Result(self, <<Sleep(wait, "ok")>> \o g.calls, TRUE) EXCEPT
               !.interface_id = interface_id, !.accepted = TRUE]
       ELSE LET w == send_webhook(self, p, interface_id, g.data, env) IN
            [self |-> w.self, exc |-> FALSE,
             calls |-> <<Sleep(wait, "ok")>> \o g.calls \o w.calls,
             interface_id |-> interface_id, accepted |-> TRUE,
             got_lldp |-> TRUE, lldp_data |-> g.data]

\* The body of the outer try block; exc: an exception reaches the outer except.
handle_try(self, p, db, event, env) ==
  IF ~event.has_labels
  THEN Result(self, <<Call("event", "labels", "raise")>>, TRUE)
  ELSE IF ~event.is_str
  THEN Result(self, <<Call("event", "labels", "ok"), Call("event", "split", "raise"),
                      LogError("parse label")>>, FALSE)
  ELSE LET parts == split(split(event.labels, ",")[1], "=") IN
       IF Len(parts) < 2
       THEN Result(self, <<Call("event", "labels", "ok"), LogError("parse label")>>, FALSE)
       ELSE LET interface_id == parts[2]
                self1 == IF self.hostname = NoAttr
                         THEN [self EXCEPT !.hostname = "Unknown"] ELSE self
                check == monitored_check(self1, interface_id)
                head == <<Call("event", "labels", "ok")>>
            IN IF check = "raise"
               THEN [Result(self1, Append(head, Call("attr", "ports_list", "raise")), TRUE)
                       EXCEPT !.interface_id = interface_id]
               ELSE IF check = "ignore"
               THEN [Result(self1, head, FALSE) EXCEPT !.interface_id = interface_id]
               ELSE LET wait == lldp_wait_time(p, env.wait)
                        r == wait_and_notify(self1, p, interface_id, db, env, wait)
                    IN [r EXCEPT !.calls = head
                                   \o <<Call("param", "lldp_wait_time", env.wait)>> \o @]

\* Faulty variant: no outer try/except.
handle_interface_up_no_except(self, p, db, event, env) ==
  handle_try(self, p, db, event, env)

\* The callback: the outer except logs whatever the body raised.
handle_interface_up(self, p, db, event, env) ==
  LET r == handle_try(self, p, db, event, env) IN
  IF r.exc
  THEN [r EXCEPT !.calls = Append(@, LogError("handle_interface_up")), !.exc = FALSE]
  ELSE r

\* ------------------------------------------------------------------ inputs
Port(i) == <<"1", "/", "1", "/">> \o str(i)

\* The format the parameter's description gives: 1/1/1-1/1/10,1/1/12
DocumentedFormat ==
  Port(1) \o <<"-">> \o Port(10) \o <<",">> \o Port(12)

RangeToken(prefix, n, m) == prefix \o <<"/">> \o n \o <<"-">> \o m

\* Tokens of the interfaces parameter: single ports, ranges in the short form
\* P/N-M, and tokens with "-" that are not of that form.
Tokens ==
  {Port(1), Port(12)}
  \cup {RangeToken(<<"1", "/", "1">>, str(n), str(m)) : n \in 1..MaxPort, m \in 1..MaxPort}
  \cup {RangeToken(<<"1", "/", "1">>, <<"0", "2">>, <<"3">>),
        RangeToken(<<"1", "/", "1">>, <<"9">>, <<"1", "1">>),
        RangeToken(<<>>, <<"1">>, <<"2">>),
        RangeToken(<<"2">>, <<"1">>, <<"2">>),
        Port(1) \o <<"-">> \o Port(3),
        <<"1", "-", "2">>,
        <<"1", "/", "a", "-", "2">>,
        Port(1) \o <<"-">>,
        Port(1) \o <<"-", "2", "-", "3">>}

RECURSIVE TokenLists(_)
TokenLists(n) ==
  IF n = 0 THEN {<<>>}
  ELSE LET shorter == TokenLists(n - 1) IN
       shorter \cup {Append(l, t) : l \in {x \in shorter : Len(x) = n - 1}, t \in Tokens}

\* Values of the interfaces parameter
InterfacesInputs ==
  {ALL, DocumentedFormat} \cup {join(l, ",") : l \in TokenLists(MaxTokens)}

InterfacesMain ==
  {ALL, DocumentedFormat, RangeToken(<<"1", "/", "1">>, <<"1">>, <<"3">>)}

\* Values of the lldp_wait_time parameter
WaitInt(v) == [kind |-> "int", v |-> v, s |-> <<>>]
WaitStr(s) == [kind |-> "str", v |-> 0, s |-> s]
WaitInputs ==
  {WaitInt(v) : v \in {MinWait - 1, MinWait, MinWait + 1, MaxWait, MaxWait + 1}}
  \cup {WaitStr(<<"3", "0">>), WaitStr(<<"-", "3">>), WaitStr(<<"a">>),
        [kind |-> "none", v |-> 0, s |-> <<>>],
        [kind |-> "missing", v |-> 0, s |-> <<>>]}

UrlInputs == {NoAttr, "", DEFAULT_WEBHOOK_URL, VALID_WEBHOOK_URL}

\* neighbor_info dicts: text values, every key optional
Info(chassis_name, mgmt_ip_list, others) ==
  [k \in ((IF chassis_name = NoAttr THEN {} ELSE {"chassis_name"})
          \cup (IF mgmt_ip_list = NoAttr THEN {} ELSE {"mgmt_ip_list"})
          \cup others) |->
    CASE k = "chassis_name" -> chassis_name
      [] k = "mgmt_ip_list" -> mgmt_ip_list
      [] k = "port_description" -> "1/1/49"
      [] k = "chassis_id" -> "aa:bb:cc:00:11:22"
      [] k = "capabilities" -> "bridge,router"]

OtherKeys == {"port_description", "chassis_id", "capabilities"}

Infos ==
  {Info(c, m, o) : c \in {NoAttr, "", "core-sw"}, m \in {NoAttr, "", "10.0.0.2"},
                   o \in {{}, OtherKeys} \cup {{k} : k \in OtherKeys}}

\* Values of the response's items: a dict with neighbor_info, a dict without,
\* something that is no dict
Neighbors ==
  {[is_dict |-> TRUE, value |-> ("neighbor_info" :> i)] : i \in Infos}
  \cup {[is_dict |-> TRUE, value |-> ("port_id" :> <<>>)],
        [is_dict |-> FALSE, value |-> <<>>]}

RECURSIVE Responses(_)
Responses(n) ==
  IF n = 0 THEN {<<>>}
  ELSE LET shorter == Responses(n - 1) IN
       shorter \cup {Append(l, t) : l \in {x \in shorter : Len(x) = n - 1}, t \in Neighbors}

ResponsesMain ==
  {<<[is_dict |-> FALSE, value |-> <<>>],
     [is_dict |-> TRUE, value |-> ("neighbor_info" :> Info("", "10.0.0.2", OtherKeys))]>>}

\* Answers of post_rest_request: an exception, an object without
\* status_code, or a status code
PostOk == [kind |-> "status", code |-> 200]
PostMain ==
  {PostOk, [kind |-> "status", code |-> 404],
   [kind |-> "raise", code |-> 0], [kind |-> "none", code |-> 0]}
PostInputs ==
  PostMain \cup {[kind |-> "status", code |-> c] : c \in {0, 199, 299, 300}}

\* Events of the rule: labels naming a port, labels without "=", labels that
\* are no text, no labels at all
Label(port) == <<"n", "=">> \o port
Event(labels) == [has_labels |-> TRUE, is_str |-> TRUE, labels |-> labels]
Events ==
  {Event(Label(Port(1)) \o <<",", "x", "=", "y">>),
   Event(Label(Port(12))),
   Event(<<"n">>),
        [has_labels |-> TRUE, is_str |-> FALSE, labels |-> <<>>],
        [has_labels |-> FALSE, is_str |-> FALSE, labels |-> <<>>]}

\* Outcomes of the host calls of on_agent_start.  A call that is not reached
\* has no outcome: its field keeps the first value.
StartEnvs ==
  {env \in [if1 : {"ok", "raise"}, if2 : {"ok", "raise"},
            sys : {"host", "raise", "empty", "nohost"},
            url1 : {"ok", "raise"}, url : {"ok", "raise"}, post : PostMain] :
     /\ env.if1 = "raise" => env.if2 = "ok"
     /\ (env.if1 = "raise" \/ env.if2 = "raise") => (env.sys = "host" /\ env.url1 = "ok")
     /\ (env.if1 = "raise" \/ env.if2 = "raise" \/ env.url1 = "raise") => env.url = "ok"
     /\ (env.if1 = "raise" \/ env.if2 = "raise" \/ env.url1 = "raise" \/ env.url = "raise")
          => env.post = PostOk}

\* on_agent_re_enable does not read webhook_url itself
ReEnableEnvs == {env \in StartEnvs : env.url1 = "ok"}

\* Outcomes of the host calls of handle_interface_up
UpEnvs ==
  {env \in [wait : {"ok", "raise"}, sleep : {"ok", "raise"},
            get1 : {"empty", "raise", "data"}, get2 : {"empty", "raise", "data"},
            url : {"ok", "raise"}, post : PostMain] :
     /\ env.sleep = "raise" => (env.get1 = "empty" /\ env.url = "ok")
     /\ env.get1 # "data" => env.get2 = "empty"
     /\ (env.sleep = "raise" \/ env.url = "raise") => env.post = PostOk}

\* --------------------------------------------------------------------- state
Self ==
  [hostname |-> hostname, monitor_all_interfaces |-> monitor_all_interfaces,
   has_ports_list |-> has_ports_list, ports_list |-> ports_list]

Last(callback, r) ==
  [callback |-> callback, interface_id |-> r.interface_id, accepted |-> r.accepted,
   got_lldp |-> r.got_lldp, lldp_data |-> r.lldp_data,
   outcome |-> IF r.exc THEN "raised" ELSE "returned"]

\* Some call of the trace raised
HasRaise(c) == \E i \in 1..Len(c) : c[i].res = "raise"

\* After __init__: no hostname, no monitor_all_interfaces, no ports_list
InitAgent ==
  /\ hostname = NoAttr
  /\ monitor_all_interfaces = NoAttr
  /\ has_ports_list = FALSE
  /\ ports_list = {}
  /\ calls = <<>>
  /\ last = Last("none", Result(Self, <<>>, FALSE))
  /\ prior_fault = FALSE

FixedWait == WaitInt(DefaultWait)

Init ==
  /\ params \in [interfaces : InterfacesMain, webhook_url : UrlInputs,
                 lldp_wait_time : {FixedWait}]
  /\ lldp_db \in ResponsesMain
  /\ InitAgent

Apply(callback, r) ==
  /\ hostname' = r.self.hostname
  /\ monitor_all_interfaces' = r.self.monitor_all_interfaces
  /\ has_ports_list' = r.self.has_ports_list
  /\ ports_list' = r.self.ports_list
  /\ calls' = r.calls
  /\ last' = Last(callback, r)
  /\ prior_fault' = (prior_fault \/ HasRaise(calls))
  /\ UNCHANGED <<params, lldp_db>>

OnAgentStart ==
  \E env \in StartEnvs :
    \E r \in {on_agent_start(Self, params, env)} :
      Apply("on_agent_start", Result(r.self, r.calls, r.exc))

OnAgentReEnable ==
  \E env \in ReEnableEnvs :
    \E r \in {on_agent_re_enable(Self, params, env)} :
      Apply("on_agent_re_enable", Result(r.self, r.calls, r.exc))

HandleInterfaceUp ==
  \E event \in Events, env \in UpEnvs :
    \E r \in {handle_interface_up(Self, params, lldp_db, event, env)} :
      Apply("handle_interface_up", r)

Next == OnAgentStart \/ OnAgentReEnable \/ HandleInterfaceUp

Spec == Init /\ [][Next]_vars

\* ------------------------------------------- every value of lldp_wait_time
InitWait ==
  /\ params \in [interfaces : {ALL}, webhook_url : {VALID_WEBHOOK_URL},
                 lldp_wait_time : WaitInputs]
  /\ lldp_db \in ResponsesMain
  /\ InitAgent

SpecWait == InitWait /\ [][Next]_vars

\* ----------------------------------- the port list as a function of its input

InitPorts ==
  /\ params \in [interfaces : InterfacesInputs, webhook_url : {VALID_WEBHOOK_URL},
                 lldp_wait_time : {FixedWait}]
  /\ lldp_db \in {<<>>}
  /\ InitAgent

InitGlobal ==
  /\ last.callback = "none"
  /\ \E env \in [if1 : {"ok", "raise"}, if2 : {"ok", "raise"}, sys : {"host"}] :
       \E r \in {init_global(Self, params, env)} :
         Apply("init_global", Result(r.self, r.calls, r.exc))

NextPorts == InitGlobal

SpecPorts == InitPorts /\ [][NextPorts]_vars

\* ------------------------------------ the payload as a function of its input
InitPayload ==
  /\ params \in [interfaces : {ALL}, webhook_url : {VALID_WEBHOOK_URL},
                 lldp_wait_time : {FixedWait}]
  /\ lldp_db \in Responses(MaxNeighbors)
  /\ InitAgent

SendWebhook ==
  /\ last.callback = "none"
  /\ \E env \in [url : {"ok", "raise"}, post : PostInputs] :
       \E w \in {send_webhook(Self, params, Port(1), lldp_db, env)} :
         Apply("send_webhook",
               [Result(w.self, w.calls, FALSE) EXCEPT
                  !.interface_id = Port(1), !.accepted = TRUE,
                  !.got_lldp = TRUE, !.lldp_data = lldp_db])

NextPayload == SendWebhook

SpecPayload == InitPayload /\ [][NextPayload]_vars

\* ===================================================================== claims
IsUp == last.callback = "handle_interface_up"

Sleeps == {i \in 1..Len(calls) : calls[i].op = "sleep"}
LldpGets == {i \in 1..Len(calls) : calls[i].op = "get" /\ calls[i].name = "lldp"}
Posts == {i \in 1..Len(calls) : calls[i].op = "post"}
UpPosts == {i \in Posts : calls[i].name = "interface_up"}

\* The answer of a POST is a failure: an exception, no status code, not 2xx
PostFailed(i) ==
  \/ calls[i].res \in {"raise", "none"}
  \/ calls[i].n < 200
  \/ calls[i].n >= 300

\* C1: in an invocation of handle_interface_up that accepts the event the
\* sleep is made and has completed before any LLDP-neighbors GET, the GETs
\* and the POST are for the event's interface, every LLDP GET precedes the
\* interface_up POST, and no interface_up POST is issued without a sleep and
\* an LLDP GET before it in the same invocation.
C1_SleepThenGetThenPost ==
  /\ (IsUp /\ last.accepted) => Sleeps # {}
  /\ \A g \in LldpGets :
       /\ \E s \in Sleeps : s < g /\ calls[s].res = "ok"
       /\ calls[g].port = replace(last.interface_id, "/", <<"%", "2", "F">>)
  /\ \A q \in UpPosts :
       /\ IsUp /\ last.accepted
       /\ calls[q].payload.interface = last.interface_id
       /\ \E s \in Sleeps : s < q
       /\ \E g \in LldpGets : g < q
       /\ \A g \in LldpGets : g < q

\* C1 witness: an accepted event slept, fetched twice and posted.
C1_Witness ==
  /\ IsUp /\ last.accepted
  /\ Cardinality(LldpGets) = 2
  /\ UpPosts # {}

\* C2: once init_global has run with interfaces other than "all"
\* (monitor_all_interfaces is False), handle_interface_up for an interface
\* that is not in ports_list makes no sleep, no LLDP GET and no POST.
C2_UnlistedPortIgnored ==
  (IsUp /\ monitor_all_interfaces = "false" /\ last.interface_id \notin ports_list)
    => (Sleeps = {} /\ LldpGets = {} /\ Posts = {})

\* C2 witness: an event for a port outside a non-empty ports_list was handled.
C2_Witness ==
  /\ IsUp /\ monitor_all_interfaces = "false" /\ has_ports_list
  /\ ports_list # {}
  /\ Len(last.interface_id) > 0
  /\ last.interface_id \notin ports_list

\* C3: with interfaces written as documented, 1/1/1-1/1/10,1/1/12, ports_list
\* holds 1/1/1 .. 1/1/10 and 1/1/12, and an up event on one of them is
\* processed.
C3_DocumentedFormatExpanded ==
  (params.interfaces = DocumentedFormat /\ monitor_all_interfaces = "false" /\ has_ports_list)
    => /\ \A i \in (1..10) \cup {12} : Port(i) \in ports_list
       /\ (IsUp /\ last.interface_id \in {Port(i) : i \in (1..10) \cup {12}})
            => last.accepted

\* The tokens of the interfaces parameter
TokensOf(interfaces) == SeqToSet(split(interfaces, ","))

\* t is P/N-M: the one "-" is followed by digits M and preceded by P/N, N
\* digits after the last "/" of the part before the "-"
IsRangeAt(t, k, j) ==
  /\ t[k] = "-" /\ t[j] = "/" /\ j < k
  /\ \A i \in 1..Len(t) : t[i] = "-" => i = k
  /\ \A i \in (j + 1)..(k - 1) : t[i] \in Digits
  /\ j + 1 <= k - 1
  /\ \A i \in (k + 1)..Len(t) : t[i] \in Digits
  /\ k + 1 <= Len(t)

IsShortRange(t) == \E k \in 1..Len(t), j \in 1..Len(t) : IsRangeAt(t, k, j)

\* The ports P/N .. P/M of a token P/N-M
RangePorts(t) ==
  UNION {{SubSeq(t, 1, j) \o str(i) :
            i \in DigitsVal(SubSeq(t, j + 1, k - 1))..DigitsVal(SubSeq(t, k + 1, Len(t)))} :
         <<k, j>> \in {x \in (1..Len(t)) \X (1..Len(t)) : IsRangeAt(t, x[1], x[2])}}

\* C4: after create_interfaces_list every token P/N-M has put P/N .. P/M
\* into ports_list, every token without "-" is kept, nothing else is in
\* ports_list, and no element of ports_list contains "-".
C4_RangesExpanded ==
  (last.callback = "init_global" /\ last.outcome = "returned" /\ params.interfaces # ALL)
    => LET tokens == TokensOf(params.interfaces) IN
       /\ has_ports_list
       /\ \A t \in tokens : IsShortRange(t) => RangePorts(t) \subseteq ports_list
       /\ \A t \in tokens : ~Contains(t, "-") => t \in ports_list
       /\ \A x \in ports_list :
            \/ x \in tokens /\ ~Contains(x, "-")
            \/ \E t \in tokens : IsShortRange(t) /\ x \in RangePorts(t)
       /\ \A x \in ports_list : ~Contains(x, "-")

\* C4 witness: a range of at least two ports and a single port were given.
C4_Witness ==
  /\ last.callback = "init_global" /\ last.outcome = "returned"
  /\ \E t \in TokensOf(params.interfaces) :
       /\ IsShortRange(t)
       /\ Cardinality(RangePorts(t)) >= 2
       /\ RangePorts(t) \subseteq ports_list
  /\ \E t \in TokensOf(params.interfaces) : ~Contains(t, "-") /\ t \in ports_list

\* The lookup of lldp_wait_time before call i returned a value
WaitLookedUp(i) ==
  \E j \in 1..(i - 1) :
    calls[j].op = "param" /\ calls[j].name = "lldp_wait_time" /\ calls[j].res = "ok"

\* C5: every sleep of handle_interface_up lasts between 5 and 60 seconds: the
\* parameter itself when it is an integer in 5..60, 5 when it is below 5, 60
\* when it is above 60, 15 when it is missing or not convertible.
C5_WaitTimeClamped ==
  \A i \in Sleeps :
    LET n == calls[i].n
        w == params.lldp_wait_time
    IN /\ n \in 5..60
       /\ WaitLookedUp(i) =>
            /\ (w.kind = "int" /\ w.v \in 5..60) => n = w.v
            /\ (w.kind = "int" /\ w.v < 5) => n = 5
            /\ (w.kind = "int" /\ w.v > 60) => n = 60
            /\ (w.kind \in {"missing", "none"}) => n = 15
            /\ (w.kind = "str" /\ ~int_ok(w.s)) => n = 15

\* C5 witness: a parameter above 60 was cut to 60 and slept.
C5_Witness ==
  /\ params.lldp_wait_time.kind = "int" /\ params.lldp_wait_time.v > 60
  /\ \E i \in Sleeps : WaitLookedUp(i) /\ calls[i].n = 60 /\ calls[i].res = "ok"

\* C6: an invocation of handle_interface_up sleeps at most once and posts at
\* most once; after a POST, failed or not, it neither posts nor sleeps again.
C6_NoRetry ==
  IsUp =>
    /\ Cardinality(Sleeps) <= 1
    /\ Cardinality(Posts) <= 1
    /\ \A q \in Posts : \A i \in (q + 1)..Len(calls) : calls[i].op \notin {"post", "sleep"}

\* C6 witness: the POST of an invocation failed.
C6_Witness == IsUp /\ \E q \in Posts : PostFailed(q)

\* The items of the response that are dicts with a neighbor_info key
Qualifying(data) ==
  {i \in 1..Len(data) : data[i].is_dict /\ "neighbor_info" \in DOMAIN data[i].value}

\* The entry the claim describes for one neighbor_info
EntryMatches(entry, info) ==
  /\ entry.remote_device =
       (IF "chassis_name" \in DOMAIN info /\ info["chassis_name"] # ""
        THEN info["chassis_name"]
        ELSE IF "mgmt_ip_list" \in DOMAIN info THEN info["mgmt_ip_list"]
        ELSE "")
  /\ entry.remote_port = (IF "port_description" \in DOMAIN info THEN info["port_description"] ELSE "")
  /\ entry.chassis_id = (IF "chassis_id" \in DOMAIN info THEN info["chassis_id"] ELSE "")
  /\ entry.capabilities = (IF "capabilities" \in DOMAIN info THEN info["capabilities"] ELSE "")
  /\ entry.mgmt_ip = (IF "mgmt_ip_list" \in DOMAIN info THEN info["mgmt_ip_list"] ELSE "")

\* C7: lldp_neighbors of the interface_up payload has one entry for each item
\* of the LLDP data that is a dict with neighbor_info, in the data's order,
\* none for any other item, and each entry has the fields the claim names.
C7_PayloadNeighbors ==
  \A q \in UpPosts :
    LET neighbors == calls[q].payload.lldp_neighbors
        data == last.lldp_data
        Q == Qualifying(data)
    IN /\ Len(neighbors) = Cardinality(Q)
       /\ \A i \in Q :
            EntryMatches(neighbors[Cardinality({x \in Q : x <= i})],
                         data[i].value["neighbor_info"])

\* C7 witness: of two items one was skipped, and the other, without a chassis
\* name, was named by its management address.
C7_Witness ==
  \E q \in UpPosts :
    /\ Len(last.lldp_data) = 2
    /\ Len(calls[q].payload.lldp_neighbors) = 1
    /\ calls[q].payload.lldp_neighbors[1].remote_device = "10.0.0.2"

\* The last LLDP-neighbors GET of the invocation
LastLldpGet == CHOOSE g \in LldpGets : \A x \in LldpGets : x <= g

UrlLookupRaised ==
  \E i \in 1..Len(calls) :
    calls[i].op = "param" /\ calls[i].name = "webhook_url" /\ calls[i].res = "raise"

Logged(i) == i < Len(calls) /\ calls[i + 1].op = "error"

IsWaitLookup(i) == calls[i].op = "param" /\ calls[i].name = "lldp_wait_time"

====
